---------------------------- MODULE Spec2Model ----------------------------
(***************************************************************************)
(* State-machine model of src/main.py: a Telegram login that waits for an  *)
(* OTP posted to a Flask endpoint (running on its own thread), and the     *)
(* handler that turns a bot message into a Bybit limit order.              *)
(*                                                                         *)
(* Execution contexts:                                                     *)
(*   - the asyncio main task (main -> telegram_login), position in pc;     *)
(*   - the threads of the Flask server, one for each POST /otp            *)
(*     (receive_otp), positions in otpPc; they share otp_received and      *)
(*     login_event with the main task and with each other with no lock,    *)
(*     so every step of one may fall between two steps of another;         *)
(*   - the message handler (bot_message_handler -> handle_bot_response),   *)
(*     run by the client on the event loop, position in hpc.               *)
(***************************************************************************)
EXTENDS Integers, Sequences, FiniteSets, TLC

(***************************************************************************)
(* Bounds of the model.                                                    *)
(***************************************************************************)
MaxOtpRequests == 2
MaxMessages == 2
MaxPending == 2

None == "None"

\* The JSON number 0 as an 'otp' value, kept apart from the text "0", which
\* Python takes as true.
NumberZero == "number 0"

\* The 'otp' values a request may carry (line 223): two codes, the empty
\* text, JSON null, which request.get_json() yields as None, and the number 0.
OtpValues == {"12345", "67890", "", None, NumberZero}

\* What request.get_json() yields for a POST /otp: it raises (a body that is
\* not JSON), returns None, returns an object without the key 'otp', or
\* returns an object with it.
OtpBodies == {[kind |-> "malformed", otp |-> ""],
              [kind |-> "none", otp |-> ""],
              [kind |-> "nokey", otp |-> ""]}
             \cup {[kind |-> "otp", otp |-> v] : v \in OtpValues}

\* A test for None only: an empty value passes.
NotNone(v) == v # None

\* Python truthiness of the value held in otp_received: None, "" and 0 are
\* false.
Truthy(v) == v \notin {None, "", NumberZero}

(***************************************************************************)
(* Numbers.  A numeric text is kept as the exact decimal it denotes, a     *)
(* fraction n/d with d > 0; float(text) is the double nearest to it        *)
(* (ToDouble below), and comparisons with 0 are the same on both.  A text  *)
(* that is no number makes float() raise ValueError.                       *)
(***************************************************************************)
Rat(n, d) == [n |-> n, d |-> d]
Zero == Rat(0, 1)

FloatTable ==
  ("0" :> Rat(0, 1)) @@ ("10" :> Rat(10, 1)) @@ ("1000" :> Rat(1000, 1)) @@
  ("1200" :> Rat(1200, 1)) @@ ("-5" :> Rat(-5, 1)) @@ ("25" :> Rat(25, 1)) @@
  ("7" :> Rat(7, 1)) @@
  ("50000" :> Rat(50000, 1)) @@ ("-50000" :> Rat(-50000, 1)) @@
  ("49000" :> Rat(49000, 1)) @@ ("52000" :> Rat(52000, 1)) @@
  ("0.001" :> Rat(1, 1000)) @@ ("0.5" :> Rat(1, 2)) @@
  ("1" :> Rat(1, 1)) @@ ("3864981" :> Rat(3864981, 1)) @@
  ("4.96555069" :> Rat(496555069, 100000000)) @@
  ("40.5522881" :> Rat(405522881, 10000000)) @@
  ("0.024659521" :> Rat(24659521, 1000000000))

\* str.strip() on the texts that occur after a label.
StripTable ==
  (" BTCUSDT" :> "BTCUSDT") @@ (" ETHUSDT" :> "ETHUSDT") @@
  (" XRPUSDT" :> "XRPUSDT") @@ (" " :> "") @@ ("" :> "") @@
  (" 50000" :> "50000") @@ (" -50000" :> "-50000") @@ (" 0" :> "0") @@
  (" 7 " :> "7") @@ (" 10" :> "10") @@
  (" 4.96555069" :> "4.96555069") @@ (" 40.5522881" :> "40.5522881") @@
  (" abc" :> "abc") @@ (" 49000" :> "49000") @@ (" 52000" :> "52000")

Strip(t) == IF t \in DOMAIN StripTable THEN StripTable[t] ELSE t

\* float(t): ok with the value, or ValueError.
ParseFloat(t) ==
  IF Strip(t) \in DOMAIN FloatTable
    THEN [ok |-> TRUE, val |-> FloatTable[Strip(t)]]
    ELSE [ok |-> FALSE, val |-> Zero]

(***************************************************************************)
(* Python floats are IEEE 754 doubles: a sign, a significand of 53 bits    *)
(* and a power of two.  A significand m, 2^52 <= m < 2^53, is kept as two  *)
(* halves, m = hi * Limb + lo.  Every division rounds its exact quotient   *)
(* to the nearest double, ties to the even significand.  The values here   *)
(* are far from the ends of the exponent range.                            *)
(***************************************************************************)
Limb == 134217728

Big(hi, lo) == [hi |-> hi, lo |-> lo]

\* 2 * x + bit, x >= y, x - y (for x >= y), on the two-halved numbers.
Twice(x, bit) ==
  Big(2 * x.hi + (2 * x.lo + bit) \div Limb, (2 * x.lo + bit) % Limb)

Geq(x, y) == x.hi > y.hi \/ (x.hi = y.hi /\ x.lo >= y.lo)

Minus(x, y) ==
  IF x.lo >= y.lo THEN Big(x.hi - y.hi, x.lo - y.lo)
  ELSE Big(x.hi - y.hi - 1, x.lo + Limb - y.lo)

DoubleZero == [sign |-> 1, m |-> Big(0, 0), e |-> 0]

IsZero(x) == x.m = Big(0, 0)

\* Shift a non-zero number left until it has 53 bits.
RECURSIVE Normalize(_, _)
Normalize(m, e) ==
  IF m.hi >= Limb \div 4 THEN [m |-> m, e |-> e]
  ELSE Normalize(Twice(m, 0), e - 1)

\* float(n) for an integer n, 0 < n < 2^31: exact.
IntToDouble(n) ==
  LET x == Normalize(Big(n \div Limb, n % Limb), 0)
  IN [sign |-> 1, m |-> x.m, e |-> x.e]

\* k more bits of the quotient by b: remainder r < b, quotient so far q.
RECURSIVE QuotientBits(_, _, _, _)
QuotientBits(r, b, q, k) ==
  IF k = 0 \/ q.hi >= Limb THEN [q |-> q, r |-> r]
  ELSE LET r2 == Twice(r, 0)
       IN IF Geq(r2, b)
            THEN QuotientBits(Minus(r2, b), b, Twice(q, 1), k - 1)
            ELSE QuotientBits(r2, b, Twice(q, 0), k - 1)

\* x / y for doubles, y # 0: 53 bits of the quotient of the significands,
\* then the rounding on what is left.
DivD(x, y) ==
  IF IsZero(x) THEN [sign |-> x.sign * y.sign, m |-> Big(0, 0), e |-> 0]
  ELSE LET first == Geq(x.m, y.m)
           d == IF first
                  THEN QuotientBits(Minus(x.m, y.m), y.m, Big(0, 1), 52)
                  ELSE QuotientBits(x.m, y.m, Big(0, 0), 53)
           e == x.e - y.e - (IF first THEN 52 ELSE 53)
           rest == Twice(d.r, 0)
           up == IF rest = y.m THEN d.q.lo % 2 = 1 ELSE Geq(rest, y.m)
           q == IF ~up THEN d.q
                ELSE IF d.q.lo + 1 < Limb THEN Big(d.q.hi, d.q.lo + 1)
                ELSE Big(d.q.hi + 1, 0)
       IN IF q.hi = Limb \div 2
            THEN [sign |-> x.sign * y.sign, m |-> Big(Limb \div 4, 0), e |-> e + 1]
            ELSE [sign |-> x.sign * y.sign, m |-> q, e |-> e]

\* float(text) for the decimal n/d the text denotes: the double nearest to
\* it, which is what the division of the two integers gives.
ToDouble(r) ==
  IF r.n = 0 THEN DoubleZero
  ELSE LET a == IntToDouble(IF r.n < 0 THEN 0 - r.n ELSE r.n)
           q == DivD(a, IntToDouble(r.d))
       IN [sign |-> IF r.n < 0 THEN 0 - 1 ELSE 1, m |-> q.m, e |-> q.e]

\* math.floor(x) for a double below 2^31 in size.
FloorD(x) ==
  IF IsZero(x) THEN 0
  ELSE LET s == 0 - x.e
           whole == IF s >= 53 THEN 0
                    ELSE IF s >= 27 THEN x.m.hi \div 2^(s - 27)
                    ELSE x.m.hi * 2^(27 - s) + x.m.lo \div 2^s
           exact == IF s >= 53 THEN FALSE
                    ELSE IF s >= 27 THEN x.m.lo = 0 /\ x.m.hi % 2^(s - 27) = 0
                    ELSE x.m.lo % 2^s = 0
       IN IF x.sign > 0 THEN whole
          ELSE IF exact THEN 0 - whole
          ELSE 0 - whole - 1

(***************************************************************************)
(* Messages: the lines of event.raw_text after line 102, each line a label *)
(* and the text that follows it.  A line with another label is commentary. *)
(***************************************************************************)
Line(label, text) == [label |-> label, text |-> text]

Absent == "absent"

SymbolTexts == {" BTCUSDT", " ETHUSDT", " XRPUSDT", " "}
PriceTexts == {" 50000", " 0", " abc", " -50000", " 7 ", " 10",
               " 4.96555069", " 40.5522881"}
StopTexts == {" 49000", " 0"}
TakeTexts == {" 52000", " 0"}

\* The lines present for one choice of the four fields (Absent: no line).
FieldLines(sym, price, stop, take) ==
  (IF sym = Absent THEN <<>> ELSE <<Line("Symbol:", sym)>>) \o
  (IF price = Absent THEN <<>> ELSE <<Line("Price:", price)>>) \o
  (IF stop = Absent THEN <<>> ELSE <<Line("Stop Loss:", stop)>>) \o
  (IF take = Absent THEN <<>> ELSE <<Line("Take Profit:", take)>>)

Reverse(s) == [i \in 1..Len(s) |-> s[Len(s) + 1 - i]]

CanonicalMessages ==
  {FieldLines(sym, price, stop, take) :
     sym \in SymbolTexts \cup {Absent}, price \in PriceTexts \cup {Absent},
     stop \in StopTexts \cup {Absent}, take \in TakeTexts \cup {Absent}}

\* The same lines in the opposite order, with bot commentary, and with a
\* field given twice.
VariantMessages ==
  {Reverse(FieldLines(sym, price, stop, take)) :
     sym \in {" BTCUSDT", Absent}, price \in {" 50000", " abc", Absent},
     stop \in {" 49000", Absent}, take \in {" 52000", Absent}} \cup
  {<<Line("Signal:", " buy")>> \o m : m \in
     {FieldLines(" BTCUSDT", " 50000", " 49000", take) : take \in TakeTexts \cup {Absent}}} \cup
  {FieldLines(" BTCUSDT", p, " 49000", " 52000") \o <<Line("Price:", " 50000")>> :
     p \in PriceTexts}

Messages == CanonicalMessages \cup VariantMessages

\* The messages the full specification lets arrive.
SampleMessages ==
  {FieldLines(" BTCUSDT", " 50000", " 49000", " 52000"),
   FieldLines(" BTCUSDT", " 50000", " 49000", Absent),
   FieldLines(" XRPUSDT", " 50000", " 49000", " 52000")}

(***************************************************************************)
(* What the exchange may answer.                                           *)
(***************************************************************************)
Instrument(sym, step) == [symbol |-> sym, qtyStep |-> step]

InstrumentResponses ==
  {[kind |-> "raise", list |-> <<>>],
   [kind |-> "ok", list |-> <<Instrument("ETHUSDT", "0.5"), Instrument("BTCUSDT", "0.001")>>],
   [kind |-> "ok", list |-> <<Instrument("BTCUSDT", "0")>>],
   [kind |-> "ok", list |-> <<Instrument("BTCUSDT", "0.024659521")>>]}

Coin(name, equity, wb) == [coin |-> name, equity |-> equity, walletBalance |-> wb]

\* An account whose "coin" entry is a list of records, a single record, or
\* neither.
Account(kind, coins) == [kind |-> kind, coins |-> coins]

WalletTexts == {"1000", "10", "-5", "25", "7", "1", "3864981"}

WalletResponses ==
  {[kind |-> "raise", list |-> <<>>],
   [kind |-> "noresult", list |-> <<>>],
   [kind |-> "ok", list |-> <<>>],
   [kind |-> "ok", list |-> <<Account("list", <<Coin("BTC", "10", "10")>>)>>],
   [kind |-> "ok", list |-> <<Account("dict", <<Coin("BTC", "10", "10")>>)>>],
   [kind |-> "ok", list |-> <<Account("list", <<Coin("USDT", "1200", "")>>)>>],
   [kind |-> "ok", list |-> <<Account("other", <<>>),
                              Account("dict", <<Coin("USDT", Absent, Absent)>>)>>],
   [kind |-> "ok", list |-> <<Account("list", <<>>),
                              Account("list", <<Coin("USDT", "25", "1000")>>)>>],
   [kind |-> "ok", list |-> <<Account("dict", <<Coin("USDT", "1200", "")>>)>>]}
  \cup {[kind |-> "ok", list |-> <<Account("list", <<Coin("BTC", "10", "10"),
                                                     Coin("USDT", "1200", wb)>>)>>] :
          wb \in WalletTexts}
  \cup {[kind |-> "ok", list |-> <<Account("dict", <<Coin("USDT", "1200", wb)>>)>>] :
          wb \in WalletTexts}

OrderResponses ==
  {[kind |-> "raise", retCode |-> 0],
   [kind |-> "ok", retCode |-> 0],
   [kind |-> "ok", retCode |-> 10001]}

NoResponse == [kind |-> "none"]

\* The answers the full specification lets the exchange give.
SampleInstrumentResponses ==
  {[kind |-> "raise", list |-> <<>>],
   [kind |-> "ok", list |-> <<Instrument("ETHUSDT", "0.5"), Instrument("BTCUSDT", "0.001")>>]}

SampleWalletResponses ==
  {[kind |-> "raise", list |-> <<>>],
   [kind |-> "ok", list |-> <<Account("dict", <<Coin("USDT", "1200", "1000")>>)>>]}

SampleOrderResponses ==
  {[kind |-> "ok", retCode |-> 0],
   [kind |-> "ok", retCode |-> 10001]}

VARIABLES
  pc,               \* position of the asyncio main task
  flaskUp,          \* the Flask thread has been started
  connected,        \* client.connect() has succeeded and the client is up
  loopRunning,      \* the event loop of asyncio.run(main()) is running
  sessionAuthorized,\* the provider holds this session as signed in
  success,          \* what telegram_login returned: "none" before it returns
  loginError,       \* the branch on which telegram_login returned False
  otp_received,     \* the module global
  otp_request_sent, \* the module global
  ev_value,         \* login_event._value
  waiter,           \* the future login_event.wait() created: none/pending/done
  waitersIter,      \* for each request, the iterator of its Event.set over
                    \* _waiters: none, or one (a future to visit), empty,
                    \* stale (deque mutated)
  signInCode,       \* the code argument evaluated for client.sign_in
  otpPc,            \* for each request, the position of its thread in
                    \* receive_otp: idle before it has come in
  otpReq,           \* for each request, its body
  otpStatus,        \* for each request, the HTTP status answered, 0 = none
  otpRequests,      \* number of /otp requests received
  codeRequests,     \* number of send_code_request calls issued
  signIns,          \* number of sign_in calls issued
  otpStores,        \* number of assignments to otp_received by receive_otp
  hpc,              \* position of handle_bot_response: idle when none runs
  msg,              \* the lines of the message being handled (the last one)
  fields,           \* symbol, price, stop_loss_price, take_profit_price
  step_size,        \* what get_step_size returned
  balance,          \* equity and wallet_balance read from the wallet response
  qtySteps,         \* math.floor(max_qty / step_size)
  calls,            \* the exchange calls made for this message, in order
  responses,        \* what the exchange answered to each of them
  outcome,          \* how the handling of the message ended
  escaped,          \* an exception left handle_bot_response
  arrived,          \* number of messages handed to the handler
  failedBefore,     \* an earlier message ended in a failure
  pending,          \* messages the provider sent that wait for the event loop
  msgNo,            \* which of the messages sent is the one being handled
  fromBacklog       \* the message being handled had waited in pending

authVars == <<pc, flaskUp, connected, loopRunning, sessionAuthorized, success,
              loginError, otp_request_sent, signInCode, codeRequests, signIns>>
otpVars == <<otpPc, otpReq, otpStatus, otpRequests, otpStores>>
sharedVars == <<otp_received, ev_value, waiter, waitersIter>>
handlerVars == <<hpc, msg, fields, step_size, balance, qtySteps, calls,
                 responses, outcome, escaped, arrived, failedBefore,
                 pending, msgNo, fromBacklog>>
vars == <<authVars, otpVars, sharedVars, handlerVars>>


(***************************************************************************)
(* The states of the specification's AuthSession, read off the position of *)
(* the login: Unauthenticated until the code request has succeeded,        *)
(* AwaitingOtp from there until telegram_login returns, then Authenticated *)
(* or PermanentlyFailed for good.                                          *)
(***************************************************************************)
AuthState ==
  IF success = "True" THEN "Authenticated"
  ELSE IF success = "False" THEN "PermanentlyFailed"
  ELSE IF pc \in {"main", "connect", "is_authorized", "send_code"}
         THEN "Unauthenticated"
  ELSE "AwaitingOtp"

(***************************************************************************)
(* handle_bot_response, lines 100-200.                                     *)
(***************************************************************************)
NoneField == [some |-> FALSE, text |-> "", val |-> Zero]
SomeText(t) == [some |-> TRUE, text |-> t, val |-> Zero]
SomeNum(r) == [some |-> TRUE, text |-> "", val |-> r]

\* Line 106: the four locals start as None for every message.
InitialFields(previous) ==
  [symbol |-> NoneField, price |-> NoneField, stop_loss_price |-> NoneField,
   take_profit_price |-> NoneField, raised |-> FALSE]

\* Lines 108-116: the loop over the lines; float() raising ends it.
RECURSIVE ParseFrom(_, _, _)
ParseFrom(lines, i, acc) ==
  IF i > Len(lines) THEN acc
  ELSE LET part == lines[i]
           f == ParseFloat(part.text)
       IN IF part.label = "Symbol:"
            THEN ParseFrom(lines, i + 1, [acc EXCEPT !.symbol = SomeText(Strip(part.text))])
          ELSE IF part.label \in {"Price:", "Stop Loss:", "Take Profit:"} /\ ~f.ok
            THEN [acc EXCEPT !.raised = TRUE]
          ELSE IF part.label = "Price:"
            THEN ParseFrom(lines, i + 1, [acc EXCEPT !.price = SomeNum(f.val)])
          ELSE IF part.label = "Stop Loss:"
            THEN ParseFrom(lines, i + 1, [acc EXCEPT !.stop_loss_price = SomeNum(f.val)])
          ELSE IF part.label = "Take Profit:"
            THEN ParseFrom(lines, i + 1, [acc EXCEPT !.take_profit_price = SomeNum(f.val)])
          ELSE ParseFrom(lines, i + 1, acc)

\* A test for None only: an empty symbol passes.
TextPresent(x) == x.some

\* Python truthiness of a local: None, "" and 0.0 are false.
TruthyText(x) == x.some /\ x.text # ""
TruthyNum(x) == x.some /\ x.val.n # 0

\* A validity test that forgets take_profit_price.
AllFieldsButTakeProfit(f) ==
  /\ TruthyText(f.symbol)
  /\ TruthyNum(f.price)
  /\ TruthyNum(f.stop_loss_price)

\* Line 118: all([symbol, price, stop_loss_price, take_profit_price]).
AllFields(f) ==
  /\ TruthyText(f.symbol)
  /\ TruthyNum(f.price)
  /\ TruthyNum(f.stop_loss_price)
  /\ TruthyNum(f.take_profit_price)

\* Lines 105-119: the fields, or ValueError.
ParseMessage(lines, previous) ==
  LET f == ParseFrom(lines, 1, InitialFields(previous))
  IN [ok |-> ~f.raised /\ AllFields(f), fields |-> f]

\* get_step_size, lines 65-78.
MatchIndex(list, symbol) ==
  IF \E i \in 1..Len(list) : list[i].symbol = symbol
    THEN CHOOSE i \in 1..Len(list) :
           /\ list[i].symbol = symbol
           /\ \A j \in 1..(i - 1) : list[j].symbol # symbol
    ELSE 0

\* A lookup that falls back on a step of 0.001 for a symbol it cannot find.
GetStepSizeOrDefault(symbol, resp) ==
  IF resp.kind = "raise" THEN [ok |-> FALSE, err |-> "ExchangeError", val |-> Zero]
  ELSE [ok |-> TRUE, err |-> "none", val |-> Rat(1, 1000)]

GetStepSize(symbol, resp) ==
  IF resp.kind = "raise" THEN [ok |-> FALSE, err |-> "ExchangeError", val |-> Zero]
  ELSE LET i == MatchIndex(resp.list, symbol)
       IN IF i = 0 THEN [ok |-> FALSE, err |-> "UnknownSymbol", val |-> Zero]
          ELSE LET f == ParseFloat(resp.list[i].qtyStep)
               IN IF f.ok THEN [ok |-> TRUE, err |-> "none", val |-> f.val]
                  ELSE [ok |-> FALSE, err |-> "ExchangeError", val |-> Zero]

\* An extraction that knows the list representation only.
AccountHasUsdtInList(account) ==
  account.kind = "list" /\ \E i \in 1..Len(account.coins) : account.coins[i].coin = "USDT"

\* Lines 136-144: the USDT record of one account, if it has one.
UsdtIndex(coins) ==
  IF \E i \in 1..Len(coins) : coins[i].coin = "USDT"
    THEN CHOOSE i \in 1..Len(coins) :
           /\ coins[i].coin = "USDT"
           /\ \A j \in 1..(i - 1) : coins[j].coin # "USDT"
    ELSE 0

AccountHasUsdt(account) ==
  IF account.kind = "list" THEN UsdtIndex(account.coins) # 0
  ELSE IF account.kind = "dict" THEN account.coins[1].coin = "USDT"
  ELSE FALSE

AccountUsdt(account) ==
  IF account.kind = "list" THEN account.coins[UsdtIndex(account.coins)]
  ELSE account.coins[1]

\* usdt_data.get(key, 0) then float(): a missing key reads as 0.
GetFloat(text) ==
  IF text = Absent THEN [ok |-> TRUE, val |-> Zero] ELSE ParseFloat(text)

\* Lines 129-157: equity and wallet balance of the first account that holds
\* a USDT record, or the ValueError "Failed to parse wallet balance".
ExtractWallet(resp) ==
  LET bad == [ok |-> FALSE, equity |-> Zero, wallet_balance |-> Zero]
      list == resp.list
  IN IF resp.kind # "ok" \/ Len(list) = 0 THEN bad
     ELSE IF ~\E i \in 1..Len(list) : AccountHasUsdt(list[i]) THEN bad
     ELSE LET k == CHOOSE i \in 1..Len(list) :
                     /\ AccountHasUsdt(list[i])
                     /\ \A j \in 1..(i - 1) : ~AccountHasUsdt(list[j])
              usdt == AccountUsdt(list[k])
              e == GetFloat(usdt.equity)
              w == GetFloat(usdt.walletBalance)
          IN IF e.ok /\ w.ok
               THEN [ok |-> TRUE, equity |-> e.val, wallet_balance |-> w.val]
               ELSE bad

\* Lines 159-160 on doubles: math.floor((wallet_balance / price) / step_size),
\* for price # 0 and step_size # 0.  The two divisions round one after the
\* other, so the result can be one below or one above the floor of the exact
\* quotient.
FloatSteps(wallet_balance, price, step) ==
  FloorD(DivD(DivD(ToDouble(wallet_balance), ToDouble(price)), ToDouble(step)))

\* FloatSteps on the balances, prices and steps the model's texts denote,
\* computed once.
WalletValues == {Zero} \cup {ParseFloat(t).val : t \in WalletTexts}
PriceValues == {ParseFloat(t).val : t \in {u \in PriceTexts : ParseFloat(u).ok}}
StepValues ==
  UNION {{ParseFloat(r.list[i].qtyStep).val : i \in 1..Len(r.list)} :
           r \in InstrumentResponses}

SizerTable ==
  {<<w, p, s, FloatSteps(w, p, s)>> :
     w \in WalletValues, p \in PriceValues \ {Zero}, s \in StepValues \ {Zero}}

QtySteps(wallet_balance, price, step) ==
  IF \E t \in SizerTable : t[1] = wallet_balance /\ t[2] = price /\ t[3] = step
    THEN (CHOOSE t \in SizerTable :
            t[1] = wallet_balance /\ t[2] = price /\ t[3] = step)[4]
    ELSE FloatSteps(wallet_balance, price, step)

\* Line 162: max_qty > 0, with max_qty = steps * step_size: the product of
\* two doubles of these sizes is above 0 exactly when neither is 0 and they
\* have the same sign.
QtyPositive(steps, step) ==
  (steps > 0 /\ step.n > 0) \/ (steps < 0 /\ step.n < 0)

\* A handler whose except clause names ValueError only.
CaughtValueErrorOnly(result) == result # "ZeroDivisionError"

\* Line 197: every Exception raised inside the try block is caught.
Caught(result) == TRUE

Failures == {"MalformedSignal", "ExchangeError", "UnknownSymbol", "WalletParseError",
             "ZeroDivisionError", "InsufficientBalance", "OrderRejected"}

\* The handler is registered on the client at import time (lines 202-205).
\* The provider's messages reach the client, which makes a handler task for
\* each, when the client is connected, the session is signed in, and the
\* main task is suspended in an await.
AwaitPoints == {"is_authorized", "send_code", "blocked", "sign_in_wait", "listening"}

Delivering ==
  /\ connected
  /\ loopRunning
  /\ sessionAuthorized
  /\ pc \in AwaitPoints

\* handle_bot_response has no await (the exchange calls are blocking calls):
\* while it runs the event loop runs nothing else.
LoopFree == hpc = "idle"

\* The event loop can run the handler on a message: it runs no other
\* handler, and either messages are being delivered or main has returned
\* and a handler task made before is left.  When main returns, asyncio.run
\* (line 345) stops the loop only in its next turn, so the handler tasks
\* made before still run.
DispatchEnabled ==
  /\ loopRunning
  /\ LoopFree
  /\ Delivering \/ (pc = "ended" /\ pending # <<>>)

Finish(result) ==
  /\ outcome' = result
  /\ hpc' = "idle"
  /\ escaped' = (escaped \/ ~Caught(result))

NoResponses == [instruments |-> NoResponse, wallet |-> NoResponse, order |-> NoResponse]

\* Lines 202-205 and 102-122: message number n of the bot is handed to the
\* handler and parsed.
HandleMessage(m, n) ==
  /\ DispatchEnabled
  /\ arrived < MaxMessages
  /\ arrived' = arrived + 1
  /\ msgNo' = n
  /\ failedBefore' = (failedBefore \/ outcome \in Failures)
  /\ msg' = m
  /\ calls' = <<>>
  /\ responses' = NoResponses
  /\ step_size' = Zero
  /\ balance' = [equity |-> Zero, wallet_balance |-> Zero]
  /\ qtySteps' = 0
  /\ LET p == ParseMessage(m, fields)
     IN /\ fields' = p.fields
        /\ IF p.ok
             THEN /\ hpc' = "step_size"
                  /\ outcome' = "running"
                  /\ UNCHANGED escaped
             ELSE Finish("MalformedSignal")
  /\ UNCHANGED <<authVars, otpVars, sharedVars>>

\* A message of the bot comes in while the event loop is free: the client
\* runs the handler on it at once.
MessageArrives(m) ==
  /\ Delivering
  /\ pending = <<>>
  /\ HandleMessage(m, arrived + 1)
  /\ fromBacklog' = FALSE
  /\ UNCHANGED pending

\* The provider sends a message and the event loop does not run its handler
\* yet: handle_bot_response holds the loop for an earlier message, or the
\* loop has other steps to run first.  The message is numbered by its
\* arrival: one more than the messages handled or waiting so far.
MessageQueued(m) ==
  /\ Delivering
  /\ Len(pending) < MaxPending
  /\ pending' = Append(pending, [no |-> arrived + Len(pending) + 1, lines |-> m])
  /\ UNCHANGED <<hpc, msg, fields, step_size, balance, qtySteps, calls, responses,
                 outcome, escaped, arrived, failedBefore, msgNo, fromBacklog>>
  /\ UNCHANGED <<authVars, otpVars, sharedVars>>

\* The waiting messages without the i-th.
Without(q, i) == SubSeq(q, 1, i - 1) \o SubSeq(q, i + 1, Len(q))

\* The event loop is free again and the handler runs on a message that had
\* waited.  The client is built without sequential_updates (line 58) and the
\* handler is registered as it is (line 202): nothing in this code says
\* which of the waiting messages the handler is given next, so it may be any
\* of them.
DispatchPending(i) ==
  /\ i \in 1..Len(pending)
  /\ HandleMessage(pending[i].lines, pending[i].no)
  /\ pending' = Without(pending, i)
  /\ fromBacklog' = TRUE

\* Line 124: step_size = get_step_size(symbol).
FetchStepSize(r) ==
  /\ hpc = "step_size"
  /\ r \in InstrumentResponses
  /\ calls' = Append(calls, "get_instruments_info")
  /\ responses' = [responses EXCEPT !.instruments = r]
  /\ LET s == GetStepSize(fields.symbol.text, r)
     IN IF s.ok
          THEN /\ step_size' = s.val
               /\ hpc' = "wallet"
               /\ UNCHANGED <<outcome, escaped>>
          ELSE /\ Finish(s.err)
               /\ UNCHANGED step_size
  /\ UNCHANGED <<msg, fields, balance, qtySteps, arrived, failedBefore,
                 pending, msgNo, fromBacklog>>
  /\ UNCHANGED <<authVars, otpVars, sharedVars>>

\* Lines 126-162 and 193-196: the wallet query, the extraction of the USDT
\* balance, and the sizing.
FetchWallet(r) ==
  /\ hpc = "wallet"
  /\ r \in WalletResponses
  /\ calls' = Append(calls, "get_wallet_balance")
  /\ responses' = [responses EXCEPT !.wallet = r]
  /\ LET w == ExtractWallet(r)
         steps == QtySteps(w.wallet_balance, fields.price.val, step_size)
     IN IF r.kind = "raise"
          THEN Finish("ExchangeError") /\ UNCHANGED <<balance, qtySteps>>
        ELSE IF ~w.ok
          THEN Finish("WalletParseError") /\ UNCHANGED <<balance, qtySteps>>
        ELSE /\ balance' = [equity |-> w.equity, wallet_balance |-> w.wallet_balance]
             /\ IF step_size.n = 0
                  THEN Finish("ZeroDivisionError") /\ UNCHANGED qtySteps
                ELSE /\ qtySteps' = steps
                     /\ IF QtyPositive(steps, step_size)
                          THEN /\ hpc' = "order"
                               /\ UNCHANGED <<outcome, escaped>>
                          ELSE Finish("InsufficientBalance")
  /\ UNCHANGED <<msg, fields, step_size, arrived, failedBefore,
                 pending, msgNo, fromBacklog>>
  /\ UNCHANGED <<authVars, otpVars, sharedVars>>

\* Lines 176-192: the order submission and its three outcomes.
OrderOutcome(r) ==
  IF r.kind = "ok" /\ r.retCode = 0 THEN "OrderPlaced" ELSE "OrderRejected"

\* A handler that submits the order again after a rejection.
RetryOrder == "order"

\* Lines 185-192: a rejected order is logged and the handler returns.
AfterOrderRejected == "idle"

PlaceOrder(r) ==
  /\ hpc = "order"
  /\ r \in OrderResponses
  /\ calls' = Append(calls, "place_order")
  /\ responses' = [responses EXCEPT !.order = r]
  /\ IF OrderOutcome(r) = "OrderRejected" /\ AfterOrderRejected # "idle"
       THEN /\ hpc' = AfterOrderRejected
            /\ UNCHANGED <<outcome, escaped>>
       ELSE Finish(OrderOutcome(r))
  /\ UNCHANGED <<msg, fields, step_size, balance, qtySteps, arrived, failedBefore,
                 pending, msgNo, fromBacklog>>
  /\ UNCHANGED <<authVars, otpVars, sharedVars>>


(***************************************************************************)
(* main, lines 329-342: the value telegram_login returned decides whether  *)
(* main goes on to client.run_until_disconnected() or ends.  The event     *)
(* loop is still running when main ends (LoopClose below).                 *)
(***************************************************************************)
MainAfterLogin(ok, err) ==
  /\ success' = IF ok THEN "True" ELSE "False"
  /\ loginError' = err
  /\ pc' = IF ok THEN "listening" ELSE "ended"
  /\ UNCHANGED loopRunning

\* main, lines 321-326: start the Flask thread, sleep, call telegram_login.
MainStart ==
  /\ LoopFree
  /\ pc = "main"
  /\ flaskUp' = TRUE
  /\ pc' = "connect"
  /\ UNCHANGED <<connected, loopRunning, sessionAuthorized, success, loginError,
                 otp_request_sent, signInCode, codeRequests, signIns>>
  /\ UNCHANGED <<otpVars, sharedVars>>
  /\ UNCHANGED handlerVars

\* telegram_login, line 245: await client.connect(); an exception is caught
\* at line 301 and the login returns False.
Connect ==
  /\ LoopFree
  /\ pc = "connect"
  /\ \/ /\ connected' = TRUE
        /\ pc' = "is_authorized"
        /\ UNCHANGED <<success, loginError, loopRunning>>
     \/ /\ MainAfterLogin(FALSE, "Exception")
        /\ UNCHANGED connected
  /\ UNCHANGED <<flaskUp, sessionAuthorized, otp_request_sent, signInCode,
                 codeRequests, signIns>>
  /\ UNCHANGED <<otpVars, sharedVars>>
  /\ UNCHANGED handlerVars

\* telegram_login, lines 248-249 and 297-300: the already-authorized check,
\* then the test of the otp_request_sent flag.
AfterUnauthorized(sent) == IF sent THEN "wait_check" ELSE "send_code"

\* Line 253: client.send_code_request(PHONE_NUMBER) issues the request and
\* the login is suspended in its await; the request counts from then on,
\* answered or not.
Issues(target) == IF target = "send_code" THEN 1 ELSE 0

\* With the session not authorized and the flag unset the login runs on to
\* line 253 and issues the code request.
IsUserAuthorized ==
  /\ LoopFree
  /\ pc = "is_authorized"
  /\ \/ /\ sessionAuthorized
        /\ MainAfterLogin(TRUE, "none")
     \/ /\ ~sessionAuthorized
        /\ pc' = AfterUnauthorized(otp_request_sent)
        /\ UNCHANGED <<success, loginError, loopRunning>>
     \/ MainAfterLogin(FALSE, "Exception")
  /\ codeRequests' = codeRequests + Issues(pc')
  /\ UNCHANGED <<flaskUp, connected, sessionAuthorized, otp_request_sent,
                 signInCode, signIns>>
  /\ UNCHANGED <<otpVars, sharedVars>>
  /\ UNCHANGED handlerVars

\* telegram_login, lines 253-264: the three outcomes of the code request
\* that is out.
CodeRequestOutcomes == {"ok", "FloodWaitError", "CodeRequestError"}

\* A login that goes on to its wait after a failed code request.
WaitAfterCodeRequestError == "wait_check"

\* A login that tries the code request again after an error.
RetryCodeRequest == "send_code"

\* Where the login goes after a failed code request: it returns False.
AfterCodeRequestError == "ended"

SendCodeRequest ==
  /\ LoopFree
  /\ pc = "send_code"
  /\ \E r \in CodeRequestOutcomes :
       IF r = "ok"
         THEN /\ otp_request_sent' = TRUE
              /\ pc' = "wait_check"
              /\ UNCHANGED <<success, loginError, loopRunning>>
         ELSE /\ UNCHANGED otp_request_sent
              /\ IF AfterCodeRequestError = "ended"
                   THEN MainAfterLogin(FALSE, r)
                   ELSE /\ pc' = AfterCodeRequestError
                        /\ UNCHANGED <<success, loginError, loopRunning>>
  /\ codeRequests' = codeRequests + Issues(pc')
  /\ UNCHANGED <<flaskUp, connected, sessionAuthorized, signInCode, signIns>>
  /\ UNCHANGED <<otpVars, sharedVars>>
  /\ UNCHANGED handlerVars

(***************************************************************************)
(* telegram_login, line 268: await login_event.wait().  asyncio.Event is   *)
(* not thread-safe and login_event.set() runs on the Flask thread, so the  *)
(* two halves of Event.wait (test _value; create the future and append it  *)
(* to _waiters) are separate steps.  _waiters is a deque: appending to it  *)
(* or removing from it while Event.set iterates over it makes the          *)
(* iterator's next step raise RuntimeError.                                *)
(***************************************************************************)
MutatedUnder(its) ==
  [t \in DOMAIN its |-> IF its[t] = "none" THEN "none" ELSE "stale"]

\* A wait that blocks until the next set, whatever was set before.
EventIgnoresEarlierSet(value) == FALSE

\* A wait that gives up without the event being set.
EventTimesOut(value) == TRUE

\* Event.wait returns at once exactly when _value is set; there is no timeout.
EventIsSet(value) == value

EventWaitCheck ==
  /\ LoopFree
  /\ pc = "wait_check"
  /\ pc' = IF EventIsSet(ev_value) THEN "woken" ELSE "wait_register"
  /\ UNCHANGED <<flaskUp, connected, loopRunning, sessionAuthorized, success,
                 loginError, otp_request_sent, signInCode, codeRequests, signIns>>
  /\ UNCHANGED <<otpVars, sharedVars>>
  /\ UNCHANGED handlerVars

EventWaitRegister ==
  /\ LoopFree
  /\ pc = "wait_register"
  /\ waiter' = "pending"
  /\ waitersIter' = MutatedUnder(waitersIter)
  /\ pc' = "blocked"
  /\ UNCHANGED <<flaskUp, connected, loopRunning, sessionAuthorized, success,
                 loginError, otp_request_sent, signInCode, codeRequests, signIns>>
  /\ UNCHANGED <<otpVars, otp_received, ev_value>>
  /\ UNCHANGED handlerVars

\* The future was completed by Event.set and the event loop has woken: the
\* login task resumes, and the finally clause of Event.wait removes the
\* future from _waiters.
EventWaitResume ==
  /\ LoopFree
  /\ pc = "blocked"
  /\ waiter = "done"
  /\ waiter' = "none"
  /\ waitersIter' = MutatedUnder(waitersIter)
  /\ pc' = "woken"
  /\ UNCHANGED <<flaskUp, connected, loopRunning, sessionAuthorized, success,
                 loginError, otp_request_sent, signInCode, codeRequests, signIns>>
  /\ UNCHANGED <<otpVars, otp_received, ev_value>>
  /\ UNCHANGED handlerVars

\* telegram_login, lines 269 and 293-296: the test of otp_received.
CheckOtp ==
  /\ LoopFree
  /\ pc = "woken"
  /\ IF Truthy(otp_received)
       THEN /\ pc' = "sign_in_call"
            /\ UNCHANGED <<success, loginError, loopRunning>>
       ELSE MainAfterLogin(FALSE, "OtpNotReceived")
  /\ UNCHANGED <<flaskUp, connected, sessionAuthorized, otp_request_sent,
                 signInCode, codeRequests, signIns>>
  /\ UNCHANGED <<otpVars, sharedVars>>
  /\ UNCHANGED handlerVars

\* telegram_login, line 271: otp_received is read again for the code argument.
SignInCall ==
  /\ LoopFree
  /\ pc = "sign_in_call"
  /\ signInCode' = otp_received
  /\ signIns' = signIns + 1
  /\ pc' = "sign_in_wait"
  /\ UNCHANGED <<flaskUp, connected, loopRunning, sessionAuthorized, success,
                 loginError, otp_request_sent, codeRequests>>
  /\ UNCHANGED <<otpVars, sharedVars>>
  /\ UNCHANGED handlerVars

\* telegram_login, lines 271-292: the provider's answer to sign_in.
SignInErrors == {"PhoneCodeInvalidError", "SessionPasswordNeededError", "SignInError"}

\* A login that submits the code again after a failed sign-in.
SignInAgainAfterError == "sign_in_call"

\* A login that waits for a fresh OTP after a failed sign-in.
WaitAgainAfterSignInError == "wait_check"

\* Where the login goes after a failed sign-in: reset, clear, return False.
AfterSignInError == "fail_reset"

SignInResult ==
  /\ LoopFree
  /\ pc = "sign_in_wait"
  /\ \/ /\ sessionAuthorized' = TRUE
        /\ MainAfterLogin(TRUE, "none")
     \/ /\ \E e \in SignInErrors : loginError' = e
        /\ pc' = AfterSignInError
        /\ UNCHANGED <<sessionAuthorized, success, loopRunning>>
  /\ UNCHANGED <<flaskUp, connected, otp_request_sent, signInCode,
                 codeRequests, signIns>>
  /\ UNCHANGED <<otpVars, sharedVars>>
  /\ UNCHANGED handlerVars

\* telegram_login, lines 278, 284, 290: otp_received = None.
FailReset ==
  /\ LoopFree
  /\ pc = "fail_reset"
  /\ otp_received' = None
  /\ pc' = "fail_clear"
  /\ UNCHANGED <<flaskUp, connected, loopRunning, sessionAuthorized, success,
                 loginError, otp_request_sent, signInCode, codeRequests, signIns>>
  /\ UNCHANGED <<otpVars, ev_value, waiter, waitersIter>>
  /\ UNCHANGED handlerVars

\* telegram_login, lines 279-280, 285-286, 291-292: login_event.clear(),
\* return False.
FailClear ==
  /\ LoopFree
  /\ pc = "fail_clear"
  /\ ev_value' = FALSE
  /\ MainAfterLogin(FALSE, loginError)
  /\ UNCHANGED <<flaskUp, connected, sessionAuthorized, otp_request_sent,
                 signInCode, codeRequests, signIns>>
  /\ UNCHANGED <<otpVars, otp_received, waiter, waitersIter>>
  /\ UNCHANGED handlerVars

\* main, lines 336-339: run_until_disconnected returns or raises; main ends.
Disconnect ==
  /\ LoopFree
  /\ pc = "listening"
  /\ connected' = FALSE
  /\ pc' = "ended"
  /\ UNCHANGED <<flaskUp, loopRunning, sessionAuthorized, success, loginError,
                 otp_request_sent, signInCode, codeRequests, signIns>>
  /\ UNCHANGED <<otpVars, sharedVars>>
  /\ UNCHANGED handlerVars

\* Line 345: main has returned; asyncio.run stops the event loop, cancels
\* the tasks that have not run and closes the loop.  A handler that runs
\* has no await and ends first.
LoopClose ==
  /\ pc = "ended"
  /\ loopRunning
  /\ LoopFree
  /\ loopRunning' = FALSE
  /\ pending' = <<>>
  /\ UNCHANGED <<pc, flaskUp, connected, sessionAuthorized, success, loginError,
                 otp_request_sent, signInCode, codeRequests, signIns>>
  /\ UNCHANGED <<otpVars, sharedVars>>
  /\ UNCHANGED <<hpc, msg, fields, step_size, balance, qtySteps, calls, responses,
                 outcome, escaped, arrived, failedBefore, msgNo, fromBacklog>>

(***************************************************************************)
(* receive_otp, lines 212-232.  app.run (line 312) serves every request on *)
(* a thread of its own, and receive_otp takes no lock, so the requests     *)
(* overlap.  Request number t is the t-th to get past lines 217-224, which *)
(* up to the assignment touch nothing shared.  The steps that              *)
(* touch shared state are separate: the assignment to otp_received (224),  *)
(* the steps of Event.set (225): test _value, set it, start the iteration  *)
(* over _waiters, ask for the next future, test that it is not done,       *)
(* complete it; and the answer after the logging of lines 226-227.         *)
(***************************************************************************)
Requests == 1..MaxOtpRequests

\* A surface that takes an OTP only while the login is waiting for one.
OtpAcceptedWhileAwaiting(body, state) == body.kind = "otp" /\ state = "AwaitingOtp"

\* Lines 217-221: the request is accepted when its JSON holds the key 'otp'.
OtpAccepted(body, state) == body.kind = "otp"

\* Lines 229-232: request.get_json() raised.
OtpRaises(body) == body.kind = "malformed"

Answered(t, status) ==
  /\ otpStatus' = [otpStatus EXCEPT ![t] = status]
  /\ otpPc' = [otpPc EXCEPT ![t] = "answered"]

GoTo(t, label) == otpPc' = [otpPc EXCEPT ![t] = label]

OtpRequest(body) ==
  /\ flaskUp
  /\ otpRequests < MaxOtpRequests
  /\ otpRequests' = otpRequests + 1
  /\ LET t == otpRequests + 1
     IN /\ otpReq' = [otpReq EXCEPT ![t] = body]
        /\ IF OtpRaises(body)
             THEN /\ Answered(t, 500)
                  /\ UNCHANGED <<otp_received, otpStores>>
             ELSE IF OtpAccepted(body, AuthState)
               THEN /\ otp_received' = body.otp
                    /\ otpStores' = otpStores + 1
                    /\ GoTo(t, "set")
                    /\ UNCHANGED otpStatus
               ELSE /\ Answered(t, 400)
                    /\ UNCHANGED <<otp_received, otpStores>>
  /\ UNCHANGED <<authVars, ev_value, waiter, waitersIter>>
  /\ UNCHANGED handlerVars

\* Event.set, line 225: if not self._value.  With the value already set,
\* set() does nothing more.
OtpTestValue(t) ==
  /\ otpPc[t] = "set"
  /\ GoTo(t, IF ev_value THEN "answer" ELSE "set_value")
  /\ UNCHANGED <<authVars, otpReq, otpStatus, otpRequests, otpStores, sharedVars>>
  /\ UNCHANGED handlerVars

\* Event.set: self._value = True.
OtpSetValue(t) ==
  /\ otpPc[t] = "set_value"
  /\ ev_value' = TRUE
  /\ GoTo(t, "wake")
  /\ UNCHANGED <<authVars, otpReq, otpStatus, otpRequests, otpStores,
                 otp_received, waiter, waitersIter>>
  /\ UNCHANGED handlerVars

\* Event.set: for fut in self._waiters starts; the iterator is made over the
\* deque as it is now.
OtpWake(t) ==
  /\ otpPc[t] = "wake"
  /\ waitersIter' = [waitersIter EXCEPT ![t] = IF waiter = "none" THEN "empty" ELSE "one"]
  /\ GoTo(t, "iterate")
  /\ UNCHANGED <<authVars, otpReq, otpStatus, otpRequests, otpStores,
                 otp_received, ev_value, waiter>>
  /\ UNCHANGED handlerVars

\* Event.set: the iterator is asked for the next future.  A deque mutated
\* since the iterator was made raises RuntimeError, which line 229 catches:
\* the answer is 500, with otp_received and the event left as they are.
\* Otherwise the future is tested, if not fut.done(), and at the end of the
\* deque set() returns.
OtpIterate(t) ==
  /\ otpPc[t] = "iterate"
  /\ IF waitersIter[t] = "stale"
       THEN /\ Answered(t, 500)
            /\ waitersIter' = [waitersIter EXCEPT ![t] = "none"]
       ELSE IF waitersIter[t] = "one"
         THEN /\ GoTo(t, IF waiter = "pending" THEN "complete" ELSE "iterate")
              /\ waitersIter' = [waitersIter EXCEPT ![t] = "empty"]
              /\ UNCHANGED otpStatus
         ELSE /\ GoTo(t, "answer")
              /\ waitersIter' = [waitersIter EXCEPT ![t] = "none"]
              /\ UNCHANGED otpStatus
  /\ UNCHANGED <<authVars, otpReq, otpRequests, otpStores, otp_received,
                 ev_value, waiter>>
  /\ UNCHANGED handlerVars

\* Event.set: fut.set_result(True).  A future another request has completed
\* since the test raises InvalidStateError, which line 229 catches: the
\* answer is 500.
OtpComplete(t) ==
  /\ otpPc[t] = "complete"
  /\ IF waiter = "pending"
       THEN /\ waiter' = "done"
            /\ GoTo(t, "iterate")
            /\ UNCHANGED <<otpStatus, waitersIter>>
       ELSE /\ Answered(t, 500)
            /\ waitersIter' = [waitersIter EXCEPT ![t] = "none"]
            /\ UNCHANGED waiter
  /\ UNCHANGED <<authVars, otpReq, otpRequests, otpStores, otp_received, ev_value>>
  /\ UNCHANGED handlerVars

\* Lines 226-228: the log line, the print, and the 200 answer.
OtpAnswer(t) ==
  /\ otpPc[t] = "answer"
  /\ Answered(t, 200)
  /\ UNCHANGED <<authVars, otpReq, otpRequests, otpStores, sharedVars>>
  /\ UNCHANGED handlerVars

Init ==
  /\ pc = "main"
  /\ flaskUp = FALSE
  /\ connected = FALSE
  /\ loopRunning = TRUE
  /\ sessionAuthorized \in BOOLEAN
  /\ success = "none"
  /\ loginError = "none"
  /\ otp_received = None
  /\ otp_request_sent = FALSE
  /\ ev_value = FALSE
  /\ waiter = "none"
  /\ waitersIter = [t \in Requests |-> "none"]
  /\ signInCode = None
  /\ otpPc = [t \in Requests |-> "idle"]
  /\ otpReq = [t \in Requests |-> [kind |-> "none", otp |-> ""]]
  /\ otpStatus = [t \in Requests |-> 0]
  /\ otpRequests = 0
  /\ codeRequests = 0
  /\ signIns = 0
  /\ otpStores = 0
  /\ hpc = "idle"
  /\ msg = <<>>
  /\ fields = InitialFields(<<>>)
  /\ step_size = Zero
  /\ balance = [equity |-> Zero, wallet_balance |-> Zero]
  /\ qtySteps = 0
  /\ calls = <<>>
  /\ responses = NoResponses
  /\ outcome = "none"
  /\ escaped = FALSE
  /\ arrived = 0
  /\ failedBefore = FALSE
  /\ pending = <<>>
  /\ msgNo = 0
  /\ fromBacklog = FALSE

Next ==
  \/ MainStart
  \/ Connect
  \/ IsUserAuthorized
  \/ SendCodeRequest
  \/ EventWaitCheck
  \/ EventWaitRegister
  \/ EventWaitResume
  \/ CheckOtp
  \/ SignInCall
  \/ SignInResult
  \/ FailReset
  \/ FailClear
  \/ Disconnect
  \/ LoopClose
  \/ \E body \in OtpBodies : OtpRequest(body)
  \/ \E t \in Requests : OtpTestValue(t)
  \/ \E t \in Requests : OtpSetValue(t)
  \/ \E t \in Requests : OtpWake(t)
  \/ \E t \in Requests : OtpIterate(t)
  \/ \E t \in Requests : OtpComplete(t)
  \/ \E t \in Requests : OtpAnswer(t)
  \/ \E m \in SampleMessages : MessageArrives(m)
  \/ MessageQueued(FieldLines(" BTCUSDT", " 50000", " 49000", " 52000"))
  \/ \E i \in 1..MaxPending : DispatchPending(i)
  \/ \E r \in SampleInstrumentResponses : FetchStepSize(r)
  \/ \E r \in SampleWalletResponses : FetchWallet(r)
  \/ \E r \in SampleOrderResponses : PlaceOrder(r)

Spec == Init /\ [][Next]_vars

(***************************************************************************)
(* The event loop runs the main task whenever it has a step of it to run;  *)
(* the /otp requests and the bot's messages come from outside and are owed *)
(* nothing.  Neither is EventWaitResume: Event.set runs on the Flask       *)
(* thread, where fut.set_result schedules the task's wake-up with          *)
(* call_soon, which does not wake a loop that sleeps in its selector; the  *)
(* login resumes only when something else wakes the loop.                  *)
(***************************************************************************)
MainTask ==
  \/ MainStart
  \/ Connect
  \/ IsUserAuthorized
  \/ SendCodeRequest
  \/ EventWaitCheck
  \/ EventWaitRegister
  \/ CheckOtp
  \/ SignInCall
  \/ SignInResult
  \/ FailReset
  \/ FailClear

(***************************************************************************)
(* The login and the OTP surface on their own: the bot sends nothing.  The *)
(* handler's steps leave every variable of the login and of receive_otp    *)
(* unchanged, so what holds here of those variables holds with the         *)
(* handler running as well.                                                *)
(***************************************************************************)
LoginNext ==
  \/ MainTask
  \/ EventWaitResume
  \/ Disconnect
  \/ LoopClose
  \/ \E body \in OtpBodies : OtpRequest(body)
  \/ \E t \in Requests : OtpTestValue(t)
  \/ \E t \in Requests : OtpSetValue(t)
  \/ \E t \in Requests : OtpWake(t)
  \/ \E t \in Requests : OtpIterate(t)
  \/ \E t \in Requests : OtpComplete(t)
  \/ \E t \in Requests : OtpAnswer(t)

LoginSpec == Init /\ [][LoginNext]_vars

FairSpec == Init /\ [][LoginNext]_vars /\ WF_vars(MainTask)

(***************************************************************************)
(* The order pipeline on its own: the session file is already authorized,  *)
(* nobody posts to /otp, and the bot may send any of Messages.             *)
(***************************************************************************)
PipelineInit == Init /\ sessionAuthorized

PipelineNext ==
  \/ MainStart
  \/ Connect
  \/ IsUserAuthorized
  \/ Disconnect
  \/ LoopClose
  \/ \E m \in Messages : MessageArrives(m)
  \/ \E r \in InstrumentResponses : FetchStepSize(r)
  \/ \E r \in WalletResponses : FetchWallet(r)
  \/ \E r \in OrderResponses : PlaceOrder(r)

PipelineSpec == PipelineInit /\ [][PipelineNext]_vars

(***************************************************************************)
(* The listener under load: the session file is already authorized and the *)
(* bot goes on sending while a message is being handled.                   *)
(***************************************************************************)
ListenerNext ==
  \/ MainStart
  \/ Connect
  \/ IsUserAuthorized
  \/ Disconnect
  \/ LoopClose
  \/ \E m \in SampleMessages : MessageArrives(m)
  \/ \E m \in SampleMessages : MessageQueued(m)
  \/ \E i \in 1..MaxPending : DispatchPending(i)
  \/ \E r \in InstrumentResponses : FetchStepSize(r)
  \/ \E r \in WalletResponses : FetchWallet(r)
  \/ \E r \in OrderResponses : PlaceOrder(r)

ListenerSpec == PipelineInit /\ [][ListenerNext]_vars

(***************************************************************************)
(* Properties.                                                             *)
(***************************************************************************)
FourLabels == {"Symbol:", "Price:", "Stop Loss:", "Take Profit:"}

\* At least one of the four labeled lines is not in the message.
MissingField(m) == \E l \in FourLabels : \A i \in 1..Len(m) : m[i].label # l

\* The sizing of lines 159-160 has been done for the current message.
Sized == hpc = "order" \/ outcome \in {"InsufficientBalance", "OrderPlaced", "OrderRejected"}

Price == fields.price.val
Wallet == balance.wallet_balance

(***************************************************************************)
(* Exact arithmetic for the statements about quantities: a whole number    *)
(* above 0 is the sequence of its digits to the base 10000, the lowest     *)
(* first, so that products of any size are compared without rounding.      *)
(***************************************************************************)
RECURSIVE Digits(_)
Digits(n) == IF n = 0 THEN <<>> ELSE <<n % 10000>> \o Digits(n \div 10000)

Digit(a, i) == IF i \in 1..Len(a) THEN a[i] ELSE 0

\* The sum of the products of digits that fall on position i.
RECURSIVE Column(_, _, _, _)
Column(a, b, i, j) ==
  IF j > i THEN 0 ELSE Digit(a, j) * Digit(b, i + 1 - j) + Column(a, b, i, j + 1)

RECURSIVE TimesFrom(_, _, _, _)
TimesFrom(a, b, i, carry) ==
  IF i > Len(a) + Len(b) THEN <<>>
  ELSE LET t == Column(a, b, i, 1) + carry
       IN <<t % 10000>> \o TimesFrom(a, b, i + 1, t \div 10000)

Times(a, b) == TimesFrom(a, b, 1, 0)

RECURSIVE LessFrom(_, _, _)
LessFrom(a, b, i) ==
  IF i = 0 THEN FALSE
  ELSE IF Digit(a, i) # Digit(b, i) THEN Digit(a, i) < Digit(b, i)
  ELSE LessFrom(a, b, i - 1)

Less(a, b) == LessFrom(a, b, IF Len(a) > Len(b) THEN Len(a) ELSE Len(b))

\* The sign and the size of the product of the whole numbers in s.
RECURSIVE Sign(_)
Sign(s) ==
  IF s = <<>> THEN 1
  ELSE (IF Head(s) > 0 THEN 1 ELSE IF Head(s) < 0 THEN 0 - 1 ELSE 0) * Sign(Tail(s))

RECURSIVE Size(_)
Size(s) ==
  IF s = <<>> THEN <<1>>
  ELSE Times(Digits(IF Head(s) < 0 THEN 0 - Head(s) ELSE Head(s)), Size(Tail(s)))

\* The product of the numbers in s is below the product of those in t.
ProductLess(s, t) ==
  IF Sign(s) # Sign(t) THEN Sign(s) < Sign(t)
  ELSE IF Sign(s) = 0 THEN FALSE
  ELSE IF Sign(s) > 0 THEN Less(Size(s), Size(t))
  ELSE Less(Size(t), Size(s))

\* qty * price <= walletBalance, with qty = qtySteps * step_size.
WithinBalance ==
  ~ProductLess(<<Wallet.n, step_size.d, Price.d>>,
               <<qtySteps, step_size.n, Price.n, Wallet.d>>)

\* walletBalance < price * stepSize.
BelowOneStep ==
  ProductLess(<<Wallet.n, Price.d, step_size.d>>,
              <<Price.n, step_size.n, Wallet.d>>)

\* qty > 0, with qty = qtySteps * step_size.
QtyAboveZero == Sign(<<qtySteps, step_size.n>>) > 0

\* No /otp request is being served.
Served == \A t \in Requests : otpPc[t] \in {"idle", "answered"}

\* The requests that carried the key 'otp', and the value of the last one.
Stored == {t \in 1..otpRequests : otpReq[t].kind = "otp"}
LastStored == otpReq[CHOOSE t \in Stored : \A u \in Stored : u <= t].otp

\* C1: no inbound message is handed to handle_bot_response before
\* telegram_login has returned True.
C1_NoMessageBeforeLogin == arrived > 0 => success = "True"

\* C2: send_code_request is issued at most once in the life of the process.
C2_AtMostOneCodeRequest == codeRequests <= 1

\* C2 witness: the code request was issued and answered, and the login has
\* run to its end.
C2_Witness == codeRequests = 1 /\ pc = "ended" /\ otp_request_sent

\* C3 as claimed: receive_otp stores an OTP only while AuthSession is in
\* AwaitingOtp.
C3_AcceptedOnlyWhileAwaiting ==
  [][otpStores' # otpStores => AuthState = "AwaitingOtp"]_vars

\* C3 amended: whatever the state of AuthSession, a request is accepted exactly
\* when its JSON body holds the key 'otp', and then its value is stored and the
\* wake signal is raised next; any other request is answered 400 or 500 and
\* changes neither the slot nor the wake signal.
C3_AcceptedByBodyAlone ==
  [][otpRequests' # otpRequests =>
       IF otpReq'[otpRequests'].kind = "otp"
         THEN /\ otp_received' = otpReq'[otpRequests'].otp
              /\ otpPc'[otpRequests'] = "set"
         ELSE /\ otpStatus'[otpRequests'] \in {400, 500}
              /\ otpPc'[otpRequests'] = "answered"
              /\ UNCHANGED <<otp_received, ev_value, waiter>>]_vars

\* C3 witness: an OTP posted after the login had succeeded without ever
\* waiting for one sits in the slot, its wake signal about to be raised.
C3_Witness ==
  /\ AuthState = "Authenticated"
  /\ codeRequests = 0
  /\ otpRequests = 1
  /\ otpPc[1] = "set"
  /\ otp_received = "12345"

\* C4: an OTP delivered while the login is in its wait unblocks it: once every
\* accepted delivery has finished setting the event, the login is not left
\* blocked on a future nobody completed.
C4_DeliveryWakesLogin ==
  (pc = "blocked" /\ otpStores >= 1 /\ Served) => waiter = "done"

\* C5 as claimed: a login waiting for an OTP that is never delivered
\* eventually ends in PermanentlyFailed.
C5_NoOtpEventuallyFails ==
  (pc = "blocked" /\ otpRequests = 0) ~> (success = "False" \/ otpRequests > 0)

\* C5 amended: the wait has no timeout; the login gets past it only after an
\* OTP was delivered, so with none delivered it stays in AwaitingOtp.
C5_PastWaitOnlyAfterDelivery ==
  (otp_request_sent /\ pc \notin {"wait_check", "wait_register", "blocked"})
    => otpStores >= 1

\* C5 witness: the login is blocked in its wait and no request was ever made.
C5_Witness == pc = "blocked" /\ waiter = "pending" /\ otpRequests = 0

\* C6: once telegram_login has returned False nothing changes that, no message
\* is handed to the handler, and the Flask thread stays up.
C6_FailureIsFrozen ==
  [][success = "False" =>
       /\ success' = "False"
       /\ arrived' = arrived
       /\ hpc' = "idle"
       /\ flaskUp']_vars

\* C7: a message that lacks one of the four labeled lines ends as a malformed
\* signal and no exchange call is made for it.
C7_MissingFieldNoCalls ==
  (arrived > 0 /\ MissingField(msg)) =>
    /\ hpc = "idle"
    /\ outcome = "MalformedSignal"
    /\ calls = <<>>

\* C7 witness: a message with Symbol, Price and Stop Loss but no Take Profit.
C7_Witness ==
  /\ arrived > 0
  /\ Len(msg) = 3
  /\ \A i \in 1..3 : msg[i].label # "Take Profit:"
  /\ TruthyText(fields.symbol) /\ TruthyNum(fields.price)
  /\ outcome = "MalformedSignal"

\* C8 as claimed: for every step size > 0 the quantity is a non-negative
\* number of steps and qty * price <= walletBalance.
C8_QtyWithinBalance ==
  (Sized /\ step_size.n > 0) => (qtySteps >= 0 /\ WithinBalance)

\* C8, the code on balance 3864981, price 4.96555069 and step 0.001: the two
\* rounded divisions give 778358986 steps where the exact quotient is
\* 778358985.99999999..., and the order is about to go out for more than the
\* balance.
C8_OverAllocated ==
  /\ Wallet = Rat(3864981, 1)
  /\ Price = Rat(496555069, 100000000)
  /\ step_size = Rat(1, 1000)
  /\ qtySteps = 778358986
  /\ hpc = "order"
  /\ ~WithinBalance

\* C9 as claimed: walletBalance < price * stepSize gives quantity 0, the
\* outcome insufficient balance and no order; an order is only placed with a
\* quantity > 0.
C9_BelowOneStepIsZero ==
  /\ (hpc = "idle" /\ responses.wallet # NoResponse /\ ExtractWallet(responses.wallet).ok
        /\ BelowOneStep)
       => /\ qtySteps = 0
          /\ outcome = "InsufficientBalance"
          /\ calls = <<"get_instruments_info", "get_wallet_balance">>
  /\ (Len(calls) = 3 => QtyAboveZero)

\* C9, the code on balance 1, price 40.5522881 and step 0.024659521: price *
\* stepSize is 1.0000000000000001..., above the balance, the double quotient
\* is 1.0, and an order for one step has been submitted.
C9_OrderBelowOneStep ==
  /\ Wallet = Rat(1, 1)
  /\ Price = Rat(405522881, 10000000)
  /\ step_size = Rat(24659521, 1000000000)
  /\ BelowOneStep
  /\ qtySteps = 1
  /\ calls = <<"get_instruments_info", "get_wallet_balance", "place_order">>

\* What the handling of message m ends in, given the answers of the exchange:
\* the steps of the pipeline in their order, each on the result of the one
\* before, with nothing carried over from an earlier message.
ExpectedOutcome(m, answers) ==
  LET p == ParseMessage(m, <<>>)
      s == GetStepSize(p.fields.symbol.text, answers.instruments)
      w == ExtractWallet(answers.wallet)
      k == QtySteps(w.wallet_balance, p.fields.price.val, s.val)
  IN IF ~p.ok THEN "MalformedSignal"
     ELSE IF ~s.ok THEN s.err
     ELSE IF answers.wallet.kind = "raise" THEN "ExchangeError"
     ELSE IF ~w.ok THEN "WalletParseError"
     ELSE IF s.val.n = 0 THEN "ZeroDivisionError"
     ELSE IF Sign(<<k, s.val.n>>) <= 0 THEN "InsufficientBalance"
     ELSE IF answers.order.kind = "ok" /\ answers.order.retCode = 0 THEN "OrderPlaced"
     ELSE "OrderRejected"

\* C10: no failure of a pipeline step leaves the handler as an exception, the
\* handling of every message ends, and its result is the one the message and
\* the exchange's answers give, whatever happened to the messages before it.
C10_FailuresAreIsolated ==
  /\ ~escaped
  /\ (hpc = "idle" /\ arrived > 0) => outcome = ExpectedOutcome(msg, responses)
  /\ (hpc # "idle") => outcome = "running"

\* C10 witness: after a message that failed, the next one got its order placed.
C10_Witness == failedBefore /\ arrived >= 2 /\ outcome = "OrderPlaced" /\ hpc = "idle"

\* The same account with its coin balances in the other representation: a
\* single record becomes a list holding it, a list becomes its USDT record
\* (its first record when it has none).
OtherRepresentation(account) ==
  IF account.kind = "dict" THEN Account("list", account.coins)
  ELSE IF account.kind = "list" /\ UsdtIndex(account.coins) # 0
    THEN Account("dict", <<account.coins[UsdtIndex(account.coins)]>>)
  ELSE IF account.kind = "list" /\ Len(account.coins) > 0
    THEN Account("dict", <<account.coins[1]>>)
  ELSE account

Twin(resp) ==
  [kind |-> resp.kind,
   list |-> [i \in 1..Len(resp.list) |-> OtherRepresentation(resp.list[i])]]

\* Some account of the response holds a record for USDT.
HasUsdtEntry(resp) ==
  \E i \in 1..Len(resp.list) :
    \E j \in 1..Len(resp.list[i].coins) : resp.list[i].coins[j].coin = "USDT"

\* C12: what the handler read from the wallet response is what the extraction
\* gives on the same response with every account in the other representation
\* (equity and walletBalance, or a wallet parse failure), and a response with
\* no USDT entry is a wallet parse failure.
C12_SameInBothRepresentations ==
  (responses.wallet # NoResponse /\ responses.wallet.kind = "ok") =>
    LET w == ExtractWallet(Twin(responses.wallet))
    IN /\ w.ok => /\ outcome # "WalletParseError"
                  /\ balance = [equity |-> w.equity, wallet_balance |-> w.wallet_balance]
       /\ ~w.ok => outcome = "WalletParseError"
       /\ ~HasUsdtEntry(responses.wallet) => outcome = "WalletParseError"

\* C12 witness: the USDT record came as a single record, equity 1200 and
\* walletBalance 1000, and the handler went on to the order with them.
C12_Witness ==
  /\ responses.wallet # NoResponse
  /\ responses.wallet.kind = "ok"
  /\ Len(responses.wallet.list) = 1
  /\ responses.wallet.list[1].kind = "dict"
  /\ balance = [equity |-> Rat(1200, 1), wallet_balance |-> Rat(1000, 1)]
  /\ hpc = "order"

\* While a message is being handled no other is handed to the handler, and
\* every exchange call made is one of its own, added to its calls.
OneAtATime ==
  /\ (arrived' # arrived =>
        /\ hpc = "idle"
        /\ calls' = <<>>)
  /\ (calls' # calls /\ arrived' = arrived =>
        /\ hpc # "idle"
        /\ msgNo' = msgNo
        /\ msg' = msg
        /\ Len(calls') = Len(calls) + 1
        /\ SubSeq(calls', 1, Len(calls)) = calls)

\* The message handed to the handler is the oldest one not yet handled.
InArrivalOrder == arrived' # arrived => msgNo' = arrived + 1

HandlersDoNotOverlap == [][OneAtATime]_vars

C13_SignInFailureEndsLogin ==
  [][/\ (pc = "sign_in_wait" /\ pc' # pc /\ success' # "True") =>
           /\ loginError' \in SignInErrors
           /\ pc' = "fail_reset"
     /\ (pc = "fail_reset" /\ pc' # pc) =>
           /\ otp_received' = None
           /\ pc' = "fail_clear"
     /\ (pc = "fail_clear" /\ pc' # pc) =>
           /\ ev_value' = FALSE
           /\ success' = "False"
           /\ pc' = "ended"
     /\ loginError' \in SignInErrors =>
           /\ signIns' = 1
           /\ pc' \in {"fail_reset", "fail_clear", "ended"}
     /\ (loginError \in SignInErrors /\ success = "False") =>
           /\ success' = "False"
           /\ pc' = "ended"
           /\ signIns' = signIns]_vars

\* C13 witness: the code 12345 was submitted and refused as invalid; the slot
\* is empty, the event is clear and the login has ended in failure.
C13_Witness ==
  /\ signInCode = "12345"
  /\ loginError = "PhoneCodeInvalidError"
  /\ success = "False"
  /\ pc = "ended"
  /\ otp_received = None
  /\ ~ev_value
  /\ signIns = 1

CodeRequestErrors == CodeRequestOutcomes \ {"ok"}

\* C14: a code request that fails, by FloodWaitError or any other exception,
\* makes telegram_login return False at once: the login is PermanentlyFailed
\* without having been in AwaitingOtp, it has created no waiter and read no
\* OTP, sign_in is never called, and the one code request stays the only one.
C14_CodeRequestFailureEndsLogin ==
  [][/\ (pc = "send_code" /\ pc' # pc /\ ~otp_request_sent') =>
           /\ loginError' \in CodeRequestErrors
           /\ success' = "False"
           /\ pc' = "ended"
           /\ AuthState' = "PermanentlyFailed"
     /\ loginError' \in CodeRequestErrors =>
           /\ success' = "False"
           /\ pc' = "ended"
           /\ ~otp_request_sent'
           /\ codeRequests' = 1
           /\ signIns' = 0
           /\ signInCode' = None
           /\ waiter' = "none"]_vars

\* C14 witness: the code request was refused for flooding; an OTP posted
\* afterwards sits in the slot and no sign-in was attempted with it.
C14_Witness ==
  /\ loginError = "FloodWaitError"
  /\ success = "False"
  /\ codeRequests = 1
  /\ otp_received = "12345"
  /\ otpStatus[1] = 200
  /\ signIns = 0

\* The number of order submissions among the calls made for the message.
OrderCalls == Cardinality({i \in 1..Len(calls) : calls[i] = "place_order"})

\* C15: place_order is called at most once for a message; when it raised or
\* answered with a non-zero retCode the message ends as a rejected order, with
\* that one submission as its last call.
C15_OrderSubmittedAtMostOnce ==
  /\ OrderCalls <= 1
  /\ (responses.order # NoResponse /\
        (responses.order.kind = "raise" \/ responses.order.retCode # 0)) =>
       /\ hpc = "idle"
       /\ outcome = "OrderRejected"
       /\ calls = <<"get_instruments_info", "get_wallet_balance", "place_order">>

\* C15 witness: the submission raised, and the handling of the message ended
\* with it, reported as a rejected order.
C15_Witness ==
  /\ responses.order # NoResponse
  /\ responses.order.kind = "raise"
  /\ OrderCalls = 1
  /\ outcome = "OrderRejected"
  /\ hpc = "idle"

PipelineCalls == <<"get_instruments_info", "get_wallet_balance", "place_order">>

\* The instruments answer lists the symbol of the message.
SymbolListed ==
  /\ responses.instruments # NoResponse
  /\ responses.instruments.kind = "ok"
  /\ \E i \in 1..Len(responses.instruments.list) :
       responses.instruments.list[i].symbol = fields.symbol.text

\* C16: the calls made for a message are a beginning of step-size query,
\* wallet query, order submission; the wallet query is made only for a symbol
\* the step-size query found, the order only after a wallet answer with a USDT
\* entry; an unknown symbol ends the message after the first call and a wallet
\* parse failure after the second.
C16_CallsInPipelineOrder ==
  /\ Len(calls) <= 3
  /\ calls = SubSeq(PipelineCalls, 1, Len(calls))
  /\ Len(calls) >= 2 => SymbolListed
  /\ Len(calls) = 3 =>
       /\ responses.wallet.kind = "ok"
       /\ HasUsdtEntry(responses.wallet)
  /\ (arrived > 0 /\ hpc = "idle" /\ responses.instruments # NoResponse /\ ~SymbolListed) =>
       /\ outcome \in {"UnknownSymbol", "ExchangeError"}
       /\ calls = <<"get_instruments_info">>
  /\ outcome = "UnknownSymbol" => calls = <<"get_instruments_info">>
  /\ outcome = "WalletParseError" =>
       calls = <<"get_instruments_info", "get_wallet_balance">>

\* C16 witness: XRPUSDT is not among the instruments: the message ended after
\* the step-size query.
C16_Witness ==
  /\ fields.symbol.text = "XRPUSDT"
  /\ responses.instruments # NoResponse
  /\ responses.instruments.kind = "ok"
  /\ outcome = "UnknownSymbol"
  /\ calls = <<"get_instruments_info">>
  /\ hpc = "idle"

\* C17: otp_received holds one value, the last one stored, and a set() that
\* finds the event set, or no waiter to wake, changes nothing more.  So when
\* the login reaches its wait after a delivery has been served to its end, the
\* wait returns at once and the login goes on with the value that delivery
\* left in the slot.
C17_EarlyDeliveryIsRetained ==
  [][/\ (pc = "wait_check" /\ pc' # pc /\ otpStores >= 1 /\ Served) =>
           /\ ev_value
           /\ pc' = "woken"
           /\ otp_received' = otp_received
           /\ otp_received \in OtpValues
           /\ otp_received = LastStored
     /\ (pc = "woken" /\ pc' # pc /\ Truthy(otp_received)) => pc' = "sign_in_call"
     /\ \A t \in Requests :
          /\ (otpPc[t] \in {"wake", "iterate", "complete"} /\ waiter # "pending"
                /\ <<otpPc[t], waitersIter[t]>>' # <<otpPc[t], waitersIter[t]>>
                /\ pc' = pc) =>
                UNCHANGED <<ev_value, waiter, otp_received>>
          /\ (otpPc[t] = "set" /\ otpPc'[t] # otpPc[t] /\ ev_value) =>
                UNCHANGED <<ev_value, waiter, otp_received>>]_vars

\* C17 witness: the OTP was posted and answered while the login was still
\* before its code request or in it; the login now stands at its wait, with the
\* value in the slot and the event set.
C17_Witness ==
  /\ pc = "wait_check"
  /\ otpRequests = 1
  /\ Served
  /\ otpStatus[1] = 200
  /\ otp_received = "12345"
  /\ ev_value
  /\ waiter = "none"

\* All four labeled lines were read and parsed, and one of the values is zero
\* or the symbol is empty.
ZeroOrEmptyField ==
  /\ ~fields.raised
  /\ fields.symbol.some /\ fields.price.some
  /\ fields.stop_loss_price.some /\ fields.take_profit_price.some
  /\ \/ fields.symbol.text = ""
     \/ fields.price.val.n = 0
     \/ fields.stop_loss_price.val.n = 0
     \/ fields.take_profit_price.val.n = 0

\* C18: a message whose four labeled lines are all there and parse, with a
\* zero Price, Stop Loss or Take Profit or an empty Symbol, ends as a malformed
\* signal, as one with a missing line does, and no exchange call is made.
C18_ZeroOrEmptyIsMalformed ==
  (arrived > 0 /\ ~MissingField(msg) /\ ZeroOrEmptyField) =>
    /\ hpc = "idle"
    /\ outcome = "MalformedSignal"
    /\ calls = <<>>
    /\ responses = NoResponses

\* C18 witness: the four lines of a BTCUSDT signal with Take Profit: 0.
C18_Witness ==
  /\ arrived > 0
  /\ Len(msg) = 4
  /\ ~MissingField(msg)
  /\ fields.symbol.text = "BTCUSDT"
  /\ fields.price.val = Rat(50000, 1)
  /\ fields.take_profit_price.some
  /\ fields.take_profit_price.val = Zero
  /\ outcome = "MalformedSignal"

\* An 'otp' value that Python takes as false: the empty text, null or zero.
EmptyOtp(v) == v \in {"", None, NumberZero}

\* C19: a request whose 'otp' value is empty is accepted like any other: the
\* value is stored and the event is set next.  A login that gets past its wait
\* and finds the empty value in the slot returns False without calling
\* sign_in, and when the empty value is the only one ever stored no sign_in is
\* ever called.
C19_EmptyOtpEndsLogin ==
  [][/\ (otpRequests' # otpRequests /\ otpReq'[otpRequests'].kind = "otp"
           /\ EmptyOtp(otpReq'[otpRequests'].otp)) =>
           /\ otp_received' = otpReq'[otpRequests'].otp
           /\ otpStores' = otpStores + 1
           /\ otpPc'[otpRequests'] = "set"
     /\ (pc = "woken" /\ pc' # pc /\ EmptyOtp(otp_received)) =>
           /\ success' = "False"
           /\ loginError' = "OtpNotReceived"
           /\ pc' = "ended"
           /\ signIns' = 0
     /\ loginError' = "OtpNotReceived" =>
           /\ success' = "False"
           /\ signIns' = 0
           /\ signInCode' = None
     /\ (\A t \in Requests : otpReq'[t].kind = "otp" => EmptyOtp(otpReq'[t].otp)) =>
           signIns' = 0]_vars

\* C19 witness: an empty OTP was posted and answered 200; the login woke, found
\* nothing usable and ended in failure with no sign-in.
C19_Witness ==
  /\ otpRequests = 1
  /\ otpReq[1] = [kind |-> "otp", otp |-> ""]
  /\ otpStatus[1] = 200
  /\ otp_received = ""
  /\ ev_value
  /\ loginError = "OtpNotReceived"
  /\ success = "False"
  /\ signIns = 0

\* C20: sign_in is called at most once, whatever is posted to /otp and
\* whenever; every accepted request overwrites the slot with its own value and
\* goes on to set the event; and the code passed to sign_in is the value the
\* slot holds at the moment the call reads it.
C20_SingleSignIn ==
  [][/\ signIns' <= 1
     /\ signIns' # signIns =>
           /\ signIns = 0
           /\ signInCode' = otp_received
           /\ otp_received' = otp_received
     /\ signIns' = signIns => signInCode' = signInCode
     /\ otpStores' # otpStores =>
           /\ otpStores' = otpStores + 1
           /\ otp_received' = otpReq'[otpRequests'].otp
           /\ otpPc'[otpRequests'] = "set"
     /\ \A t \in Requests :
          /\ (otpPc[t] = "set" /\ otpPc'[t] # otpPc[t]) =>
                (ev_value' \/ otpPc'[t] = "set_value")
          /\ (otpPc[t] = "set_value" /\ otpPc'[t] # otpPc[t]) => ev_value']_vars

\* C20 witness: two values were posted and both answered, 67890 the later one;
\* the one sign-in, now out, carries 67890.
C20_Witness ==
  /\ otpStores = 2
  /\ Served
  /\ otp_received = "67890"
  /\ signIns = 1
  /\ signInCode = "67890"
  /\ pc = "sign_in_wait"

=============================================================================
